---- MODULE Spec2Model ----
(***************************************************************************)
(* Model of bellman-bignat's accumulator-transition circuit                *)
(* (src/src/rollup.rs, Rollup::synthesize and RollupInputs::new), of its   *)
(* test harness (src/src/util/test_helpers.rs, circuit_tests) and of the   *)
(* key/proof export binary (src/src/bin/export.rs, main).                  *)
(*                                                                         *)
(* Numbers are scaled: TLC integers are 32 bits wide, so the 2048-bit      *)
(* modulus, the 32-bit limbs and the 128/2048-bit hash domains of the      *)
(* source are replaced by small stand-ins (named below).  Item counts and  *)
(* item sizes (n_swaps, ELEMENT_SIZE) keep the source's values.            *)
(***************************************************************************)
EXTENDS Integers, Sequences, FiniteSets, Bags, TLC

(***************************************************************************)
(* Option<T>: None is the empty sequence, Some(x) the one-element sequence *)
(***************************************************************************)
None == <<>>
Some(x) == <<x>>
IsSome(o) == o # <<>>
Unwrap(o) == o[1]

(***************************************************************************)
(* Scaled sizes                                                            *)
(***************************************************************************)
\* limb_width (32 in export.rs:71 and rollup.rs:295), scaled
LIMB_WIDTH == 2
\* RSA_SIZE (2048 in export.rs:63), scaled
RSA_SIZE == 8
\* the literal limb count of nat_to_limbs(.., 32, 64) in export.rs:283-290, scaled
PACK_N_LIMBS == 4
\* n_bits_challenge (128 in export.rs:73 and rollup.rs:297), scaled
N_BITS_CHALLENGE == 4
\* n_bits_base of the test (512 in rollup.rs:298), scaled
TEST_N_BITS_BASE == 6
\* n_bits_elem of the test (128 in rollup.rs:284 and rollup.rs:296), scaled
TEST_N_BITS_ELEM == 4
\* hex digits format!("{}", repr) prints after "0x" (64 for the 256-bit
\* representations of Bn256, export.rs:110), scaled
REPR_HEX_DIGITS == 2
\* RSA_2048 (export.rs:62), a scaled semiprime that fits RSA_SIZE bits
RSA_2048 == 11 * 23
\* RSA_512 (rollup.rs:268), a scaled semiprime that fits TEST_N_BITS_BASE bits
RSA_512 == 5 * 11
\* CHALLENGE (rollup.rs:20), scaled to N_BITS_CHALLENGE bits
CHALLENGE == 8 + 5

(***************************************************************************)
(* Program constants kept at the source's values                           *)
(***************************************************************************)
\* ELEMENT_SIZE (export.rs:64); also item_size of the test (rollup.rs:299)
ELEMENT_SIZE == 5
\* n_swaps of generate_bench_params (export.rs:67)
BenchSwaps == 5
\* n_swaps of construct_circuit (export.rs:228)
CircuitSwaps == 1

(***************************************************************************)
(* Bounds of the exploration                                               *)
(***************************************************************************)
\* longest to_remove / to_insert list the harness draws
MaxItems == 2
\* the harness claims final digests correct+1 .. correct+MaxTamper (mod m)
MaxTamper == 1
\* number of times the export binary is run against the same file system
MaxRuns == 2
\* most positional arguments the export binary is started with
MaxArgs == 3
\* longest vector of points in the Parameters the key encoding is applied to
MaxPoints == 1

(***************************************************************************)
(* Arithmetic                                                              *)
(***************************************************************************)
RECURSIVE Pow2(_)
Pow2(n) == IF n <= 0 THEN 1 ELSE 2 * Pow2(n - 1)

\* BigUint::modpow(exp, modulus)
RECURSIVE ModPow(_, _, _)
ModPow(b, e, m) ==
    IF e = 0 THEN 1 % m
    ELSE LET h == ModPow(b, e \div 2, m)
             sq == (h * h) % m
         IN IF e % 2 = 1 THEN (sq * (b % m)) % m ELSE sq

\* iter.fold(acc, |g, i| g.modpow(&i, &m))
RECURSIVE FoldModPow(_, _, _)
FoldModPow(acc, exps, m) ==
    IF exps = <<>> THEN acc
    ELSE FoldModPow(ModPow(acc, Head(exps), m), Tail(exps), m)

\* nat_to_limbs(nat, limb_width, n_limbs): little-endian limbs, None when the
\* number does not fit
NatToLimbs(nat, limb_width, n_limbs) ==
    IF nat >= Pow2(limb_width * n_limbs) THEN None
    ELSE Some([k \in 1..n_limbs |->
                 (nat \div Pow2(limb_width * (k - 1))) % Pow2(limb_width)])

RECURSIVE SeqToBag(_)
SeqToBag(s) ==
    IF s = <<>> THEN EmptyBag ELSE SetToBag({Head(s)}) (+) SeqToBag(Tail(s))

(***************************************************************************)
(* Texts: a text is the sequence of its characters                         *)
(***************************************************************************)
HexDigits == <<"0", "1", "2", "3", "4", "5", "6", "7", "8", "9",
               "a", "b", "c", "d", "e", "f">>

DigitValue(ch) == (CHOOSE k \in 1..Len(HexDigits) : HexDigits[k] = ch) - 1

\* BigUint::to_str_radix(radix), and {} of an integer for radix 10: no
\* leading zeros, "0" for zero
RECURSIVE ToStrRadix(_, _)
ToStrRadix(n, radix) ==
    IF n < radix THEN <<HexDigits[n + 1]>>
    ELSE Append(ToStrRadix(n \div radix, radix), HexDigits[(n % radix) + 1])

\* {:0width} of an integer: its decimal text, filled on the left with zeros
\* up to the width; a longer text is left as it is
ZeroPadded(n, width) ==
    LET text == ToStrRadix(n, 10)
    IN [k \in 1..(width - Len(text)) |-> "0"] \o text

\* the modulus of the scalar field Fr, scaled (a prime)
FR_MODULUS == 1000 + 9

RECURSIVE FrAccumulate(_, _)
FrAccumulate(text, acc) ==
    IF text = <<>> THEN acc
    ELSE FrAccumulate(Tail(text), (acc * 10 + DigitValue(Head(text))) % FR_MODULUS)

\* PrimeField::from_str: None for the empty text, for a character that is
\* no decimal digit and for a leading zero (other than "0" itself); the
\* digits are accumulated in the field
FrFromStr(text) ==
    IF text = <<>> THEN None
    ELSE IF text = <<"0">> THEN Some(0)
    ELSE IF \E k \in 1..Len(text) :
                \A d \in 1..10 : HexDigits[d] # text[k] THEN None
    ELSE IF Head(text) = "0" THEN None
    ELSE Some(FrAccumulate(text, 0))

(***************************************************************************)
(* Domain embedding (hash::hash_to_rsa_element, native and in circuit)     *)
(***************************************************************************)
HashDomain(n_bits, n_trailing_ones) ==
    [n_bits |-> n_bits, n_trailing_ones |-> n_trailing_ones]

\* stand-in for the Poseidon sponge over the field values of an item
RECURSIVE Mix(_, _)
Mix(xs, acc) ==
    IF xs = <<>> THEN acc
    ELSE Mix(Tail(xs), (acc * 31 + (Head(xs) % 1009) + 1) % 1009)

\* below 2^n_bits, lowest n_trailing_ones bits set
HashToRsaElement(xs, domain) ==
    LET ones == Pow2(domain.n_trailing_ones)
        high == Pow2(domain.n_bits - domain.n_trailing_ones)
    IN (Mix(xs, 7) % high) * ones + (ones - 1)

HashAll(items, domain) ==
    [k \in 1..Len(items) |-> HashToRsaElement(items[k], domain)]

(***************************************************************************)
(* Accumulator backend (rsa_set::NaiveRsaSetBackend): the multiset of the  *)
(* current domain elements and its digest                                  *)
(***************************************************************************)
RsaGroup(g, m) == [g |-> g, m |-> m]

BackendNew(group) == [group |-> group, elements |-> EmptyBag]

BackendInsert(set, n) ==
    [set EXCEPT !.elements = @ (+) SetToBag({n})]

BackendContains(set, n) == BagIn(n, set.elements)

\* removing an element that is not a member changes nothing
BackendRemove(set, n) ==
    IF BackendContains(set, n)
    THEN [set EXCEPT !.elements = @ (-) SetToBag({n})]
    ELSE set

RECURSIVE BackendInsertAll(_, _)
BackendInsertAll(set, ns) ==
    IF ns = <<>> THEN set
    ELSE BackendInsertAll(BackendInsert(set, Head(ns)), Tail(ns))

RECURSIVE BackendRemoveAll(_, _)
BackendRemoveAll(set, ns) ==
    IF ns = <<>> THEN set
    ELSE BackendRemoveAll(BackendRemove(set, Head(ns)), Tail(ns))

BackendNewWith(group, ns) == BackendInsertAll(BackendNew(group), ns)

RECURSIVE BagDigest(_, _, _)
BagDigest(acc, bag, m) ==
    IF BagToSet(bag) = {} THEN acc
    ELSE LET x == CHOOSE x \in BagToSet(bag) : TRUE
         IN BagDigest(ModPow(acc, x, m), bag (-) SetToBag({x}), m)

\* g raised to the product of the current members, mod m
BackendDigest(set) == BagDigest(set.group.g, set.elements, set.group.m)

(***************************************************************************)
(* Witness construction (rollup.rs, RollupInputs)                          *)
(***************************************************************************)
\* format!("1{:06}{:03}", i, j) (rollup.rs:59, 66, 73)
FormatValue(i, j) == <<"1">> \o ZeroPadded(i, 6) \o ZeroPadded(j, 3)

CountedItems(n, item_len) ==
    [i \in 1..n |-> [j \in 1..item_len |-> FormatValue(i - 1, j - 1)]]

\* (mutant) the untouched hashes are left out of the final digest
FinalDigestInsertedOnly(untouched_hashes, inserted_hashes, group) ==
    FoldModPow(group.g, inserted_hashes, group.m)

\* the final digest folds every untouched hash, then every inserted hash
FinalDigestOf(untouched_hashes, inserted_hashes, group) ==
    FoldModPow(group.g, untouched_hashes \o inserted_hashes, group.m)

\* the initial state is built from the untouched and the removed hashes
InitialStateOf(untouched_hashes, removed_hashes, group) ==
    BackendNewWith(group, untouched_hashes \o removed_hashes)

\* (mutant) the native hash forces two trailing ones
NativeHashDomainTwoOnes(n_bits_elem) == HashDomain(n_bits_elem, 2)

\* the descriptor RollupInputs::new hashes with
NativeHashDomain(n_bits_elem) == HashDomain(n_bits_elem, 1)

\* .map(|j| Fr::from_str(j).unwrap()) over every item (rollup.rs:95-118)
ParseItems(items) ==
    [i \in 1..Len(items) |->
        [j \in 1..Len(items[i]) |-> Unwrap(FrFromStr(items[i][j]))]]

\* RollupInputs::new; hash_domain and built record what the witness was
\* computed from (they are not fields of the Rust struct)
RollupInputs_new(untouched_items, removed_items, inserted_items, n_bits_elem, group) ==
    LET untouched == ParseItems(untouched_items)
        removed == ParseItems(removed_items)
        inserted == ParseItems(inserted_items)
        hash_domain == NativeHashDomain(n_bits_elem)
        untouched_hashes == HashAll(untouched, hash_domain)
        removed_hashes == HashAll(removed, hash_domain)
        inserted_hashes == HashAll(inserted, hash_domain)
    IN [initial_state |-> InitialStateOf(untouched_hashes, removed_hashes, group),
        final_digest |-> FinalDigestOf(untouched_hashes, inserted_hashes, group),
        to_remove |-> removed,
        to_insert |-> inserted,
        hash_domain |-> hash_domain,
        built |-> [untouched |-> untouched, removed |-> removed,
                   inserted |-> inserted, group |-> group]]

RollupInputs_from_counts(n_untouched, n_removed, n_inserted, item_len, n_bits_elem, group) ==
    RollupInputs_new(CountedItems(n_untouched, item_len),
                     CountedItems(n_removed, item_len),
                     CountedItems(n_inserted, item_len),
                     n_bits_elem, group)

RollupParams(group, limb_width, n_bits_base, n_bits_elem, n_bits_challenge, item_size, n_removes, n_inserts) ==
    [group |-> group, limb_width |-> limb_width, n_bits_base |-> n_bits_base,
     n_bits_elem |-> n_bits_elem, n_bits_challenge |-> n_bits_challenge,
     item_size |-> item_size, n_removes |-> n_removes, n_inserts |-> n_inserts]

\* a circuit to synthesize: Rollup { inputs, params }, and who built it (origin)
Rollup(origin, inputs, params) ==
    [origin |-> origin, inputs |-> inputs, params |-> params]

(***************************************************************************)
(* The circuits of the tests (rollup.rs, mod test)                         *)
(***************************************************************************)
TestItemA == << <<"0">>, <<"1">>, <<"2">>, <<"3">>, <<"4">> >>
TestItemB == << <<"0">>, <<"1">>, <<"2">>, <<"3">>, <<"5">> >>
TestGroup == RsaGroup(2, RSA_512)

small_rsa_1_swap ==
    Rollup("small_rsa_1_swap",
           Some(RollupInputs_new(<<>>, <<TestItemA>>, <<TestItemB>>,
                                 TEST_N_BITS_ELEM, TestGroup)),
           RollupParams(TestGroup, LIMB_WIDTH, TEST_N_BITS_BASE, TEST_N_BITS_ELEM,
                        N_BITS_CHALLENGE, ELEMENT_SIZE, 1, 1))

(***************************************************************************)
(* The circuits of the export binary (export.rs)                           *)
(***************************************************************************)
BenchGroup == RsaGroup(2, RSA_2048)

generate_bench_params(group) ==
    RollupParams(group, LIMB_WIDTH, RSA_SIZE, RSA_SIZE, N_BITS_CHALLENGE,
                 ELEMENT_SIZE, BenchSwaps, BenchSwaps)

\* the shape-only circuit generate_params hands to generate_random_parameters
ShapeCircuit(group) ==
    Rollup("generate_params", None, generate_bench_params(group))

construct_circuit(group) ==
    Rollup("construct_circuit",
           Some(RollupInputs_from_counts(0, CircuitSwaps, CircuitSwaps,
                                         ELEMENT_SIZE, RSA_SIZE, BenchGroup)),
           generate_bench_params(group))

(***************************************************************************)
(* The circuits the test harness is run on: small_rsa_1_swap, and circuits *)
(* built the same way from drawn item lists, with the params matching the  *)
(* witness, with one param changed, with a claimed final digest that is    *)
(* not the computed one, or with the witness absent                        *)
(***************************************************************************)
HarnessItems == {TestItemA, TestItemB}
AltGroup == RsaGroup(2, 3 * 13)

ItemLists(n) == UNION {[1..k -> HarnessItems] : k \in 0..n}

HarnessWitnesses ==
    {RollupInputs_new(u, r, i, TEST_N_BITS_ELEM, TestGroup) :
        u \in ItemLists(1), r \in ItemLists(MaxItems), i \in ItemLists(MaxItems)}

MatchingParams(w) ==
    RollupParams(w.built.group, LIMB_WIDTH, TEST_N_BITS_BASE, w.hash_domain.n_bits,
                 N_BITS_CHALLENGE, ELEMENT_SIZE, Len(w.to_remove), Len(w.to_insert))

OneParamChanged(p) ==
    {[p EXCEPT !.n_removes = k] : k \in (0..MaxItems) \ {p.n_removes}}
    \cup {[p EXCEPT !.n_inserts = k] : k \in (0..MaxItems) \ {p.n_inserts}}
    \cup {[p EXCEPT !.item_size = ELEMENT_SIZE + 1],
          [p EXCEPT !.item_size = ELEMENT_SIZE - 1],
          [p EXCEPT !.n_bits_elem = RSA_SIZE],
          [p EXCEPT !.group = AltGroup]}

\* the witness w claiming a final digest that is off by k
Tampered(w, k) ==
    [w EXCEPT !.final_digest = (w.final_digest + k) % w.built.group.m]

HarnessCircuits ==
    {small_rsa_1_swap}
    \cup {Rollup("matching", Some(w), MatchingParams(w)) :
            w \in HarnessWitnesses}
    \cup {Rollup("tampered", Some(Tampered(w, k)), MatchingParams(w)) :
            w \in HarnessWitnesses, k \in 1..MaxTamper}
    \cup UNION {{Rollup("param changed", Some(w), p) :
                    p \in OneParamChanged(MatchingParams(w))} :
                w \in HarnessWitnesses}
    \cup {Rollup("no witness", None, MatchingParams(w)) : w \in HarnessWitnesses}

(***************************************************************************)
(* State                                                                   *)
(***************************************************************************)
VARIABLES
    prog,         \* which program runs: "test" (circuit_tests) or "export" (main)
    pc,           \* position in that program
    circuit,      \* the Rollup being synthesized (self in synthesize)
    syn_pc,       \* position in Rollup::synthesize
    syn,          \* the locals of Rollup::synthesize and its result
    cs,           \* the constraint system synthesize writes to
    shape_trace,  \* what the synthesis of generate_params allocated
    subject,      \* the circuit the program was given or constructs
    test_result,  \* outcome of the test harness
    is_sat,       \* what the test expects of cs.is_satisfied()
    args,         \* export: the positional arguments (args[1..] of std::env::args)
    group,        \* export: main's group
    fs,           \* the file system: path -> content
    fs_at_call,   \* the file system as generate_keys found it
    stdout,       \* what the process printed
    exit_status,  \* "running", "success", "usage error" or "panicked"
    run,          \* how many times the export binary was started
    last_run,     \* the arguments of the previous run and whether it wrote both keys
    rng,          \* the thread-local generator behind rand::thread_rng()
    calls,        \* the calls made into the proving backend, in order
    keys,         \* the Parameters generate_params returned
    packed,       \* the Vec `inputs` of main (export.rs:283-290)
    initial_set,  \* main's initial_set (export.rs:276)
    final_set     \* main's final_set (export.rs:277-281)

synVars == <<circuit, syn_pc, syn, cs>>
exportVars == <<args, group, fs, fs_at_call, stdout, exit_status, run, last_run,
                rng, calls, keys, packed, initial_set, final_set>>
\* exportVars without stdout
silentVars == <<args, group, fs, fs_at_call, exit_status, run, last_run, rng, calls,
                keys, packed, initial_set, final_set>>
fileVars == <<fs, fs_at_call>>
testVars == <<subject, test_result, is_sat>>

(***************************************************************************)
(* Rollup::synthesize (rollup.rs:165-259)                                  *)
(***************************************************************************)
\* the constraint systems a circuit is synthesized over: the one of the test
\* macro, the one of generate_random_parameters and the one of
\* create_random_proof
CsKinds == {"TestConstraintSystem", "KeypairAssembly", "ProvingAssignment"}

\* (mutant) no constraint system runs the value closures
ClosuresSkipped(c) == FALSE

\* ConstraintSystem::alloc runs the value closure except in parameter
\* generation (KeypairAssembly), which only counts the variable
Evaluates(c) == c.kind # "KeypairAssembly"

Entry(op, name, i, j) == [op |-> op, name |-> name, i |-> i, j |-> j]

\* println!(text)
Println(text) == stdout' = Append(stdout, <<text>>)

\* a fresh constraint system of the given kind
NewCs(kind) == [kind |-> kind, trace |-> <<>>, inputs |-> <<>>, unsatisfied |-> {}]

\* before the program has built a constraint system
NoCs == NewCs("none")

SynLocals ==
    [i |-> 0, set |-> None, set_digest |-> None,
     removals |-> <<>>, insertions |-> <<>>,
     reduced_set |-> None, reduced_digest |-> None,
     expanded_set |-> None, expanded_digest |-> None,
     expected_digest |-> None, hash_domains |-> <<>>, result |-> "running"]

\* the descriptor synthesize hashes with (rollup.rs:197-200)
CircuitHashDomain(params) == HashDomain(params.n_bits_elem, 1)

\* (mutant) the removal loop runs over the witness's list when there is one
RemovalCountOfWitness(c) ==
    IF c.inputs = None THEN c.params.n_removes ELSE Len(Unwrap(c.inputs).to_remove)

\* number of to-remove / to-insert items synthesize allocates and hashes
RemovalCount(c) == c.params.n_removes
InsertionCount(c) == c.params.n_inserts

Fail(err) ==
    /\ syn' = [syn EXCEPT !.result = err]
    /\ syn_pc' = "returned"

\* AllocatedRsaGroup::alloc_input (rollup.rs:166-174)
SynGroup ==
    /\ syn_pc = "group"
    /\ cs' = [cs EXCEPT !.trace = Append(@, Entry("alloc_input", "group", -1, -1)),
                        !.inputs = @ \o <<"group.g", "group.m">>]
    /\ syn_pc' = "challenge"
    /\ UNCHANGED <<circuit, syn, stdout>>

\* BigNat::alloc_from_nat of the challenge (rollup.rs:175-181)
SynChallenge ==
    /\ syn_pc = "challenge"
    /\ cs' = [cs EXCEPT !.trace = Append(@, Entry("alloc", "challenge", -1, -1))]
    /\ syn_pc' = "set init"
    /\ UNCHANGED <<circuit, syn, stdout>>

\* "Constructing Set" and RsaSet::alloc (rollup.rs:182-195): the closure
\* takes the initial state out of the witness and leaves an empty backend in
\* its place; then "Hashing Deletions..." (rollup.rs:201)
SynSetInit ==
    /\ syn_pc = "set init"
    /\ IF Evaluates(cs) /\ circuit.inputs = None
       THEN /\ Println("Constructing Set")
            /\ Fail("AssignmentMissing")
            /\ UNCHANGED <<circuit, cs>>
       ELSE /\ stdout' = stdout \o << <<"Constructing Set">>,
                                      <<"Hashing Deletions...">> >>
            /\ cs' = [cs EXCEPT !.trace = Append(@, Entry("set alloc", "set init", -1, -1))]
            /\ IF Evaluates(cs)
               THEN LET backend == Unwrap(circuit.inputs).initial_state
                    IN /\ syn' = [syn EXCEPT !.set = Some(backend),
                                             !.set_digest = Some(BackendDigest(backend)),
                                             !.i = 0]
                       /\ circuit' = [circuit EXCEPT !.inputs =
                              Some([Unwrap(circuit.inputs) EXCEPT !.initial_state =
                                        BackendNew(circuit.params.group)])]
               ELSE /\ syn' = [syn EXCEPT !.i = 0]
                    /\ UNCHANGED circuit
            /\ syn_pc' = "hash removes"

Min(a, b) == IF a <= b THEN a ELSE b

\* how many of the item_size values of item i of the witness list `field`
\* the closures of rollup.rs:207 / rollup.rs:227 can read before
\* inputs.grab(), get(i).grab() or get(j).grab() finds nothing
Available(c, field, i) ==
    IF c.inputs = None THEN 0
    ELSE LET items == Unwrap(c.inputs)[field]
         IN IF i >= Len(items) THEN 0
            ELSE Min(Len(items[i + 1]), c.params.item_size)

\* one pass of the map closure of rollup.rs:203-218 (field "to_remove") or of
\* rollup.rs:223-238 (field "to_insert"): allocate the item's values, hash them
HashItem(field, local, alloc_name, hash_name) ==
    LET size == circuit.params.item_size
        got == IF Evaluates(cs) THEN Available(circuit, field, syn.i)
               ELSE size
        allocs == [j \in 1..got |-> Entry("alloc", alloc_name, syn.i, j - 1)]
        domain == CircuitHashDomain(circuit.params)
    IN IF got < size
       THEN /\ cs' = [cs EXCEPT !.trace = @ \o allocs]
            /\ Fail("AssignmentMissing")
       ELSE LET value ==
                  IF Evaluates(cs)
                  THEN Some(HashToRsaElement(
                           SubSeq(Unwrap(circuit.inputs)[field][syn.i + 1], 1, size),
                           domain))
                  ELSE None
            IN /\ cs' = [cs EXCEPT !.trace =
                             (@ \o allocs) \o <<Entry("hash", hash_name, syn.i, -1)>>]
               /\ syn' = [syn EXCEPT ![local] = Append(@, value),
                                     !.hash_domains = Append(@, domain),
                                     !.i = @ + 1]
               /\ UNCHANGED syn_pc

\* one removal allocated and hashed (rollup.rs:202-219)
SynHashRemoval ==
    /\ syn_pc = "hash removes"
    /\ syn.i < RemovalCount(circuit)
    /\ HashItem("to_remove", "removals", "remove", "hash remove")
    /\ UNCHANGED <<circuit, stdout>>

\* the removals are collected; "Hashing Insertions..." (rollup.rs:219-221)
SynRemovalsHashed ==
    /\ syn_pc = "hash removes"
    /\ syn.i >= RemovalCount(circuit)
    /\ Println("Hashing Insertions...")
    /\ syn' = [syn EXCEPT !.i = 0]
    /\ syn_pc' = "hash inserts"
    /\ UNCHANGED <<circuit, cs>>

\* one insertion allocated and hashed (rollup.rs:222-239)
SynHashInsertion ==
    /\ syn_pc = "hash inserts"
    /\ syn.i < InsertionCount(circuit)
    /\ HashItem("to_insert", "insertions", "inset", "hash insert")
    /\ UNCHANGED <<circuit, stdout>>

SynInsertionsHashed ==
    /\ syn_pc = "hash inserts"
    /\ syn.i >= InsertionCount(circuit)
    /\ syn' = [syn EXCEPT !.i = 0]
    /\ syn_pc' = "remove"
    /\ UNCHANGED <<circuit, cs, stdout>>

Values(opts) == [k \in 1..Len(opts) |-> Unwrap(opts[k])]

Constrain(c, name, holds) ==
    [c EXCEPT !.unsatisfied = IF holds THEN @ ELSE @ \cup {name}]

\* the set `remove` is called on (rollup.rs:242)
RemoveFrom(s) == [set |-> s.set, digest |-> s.set_digest]

\* (mutant) insert is called on the set remove was called on
InsertIntoOriginal(s) == [set |-> s.set, digest |-> s.set_digest]

\* the set `insert` is called on (rollup.rs:245-246)
InsertInto(s) == [set |-> s.reduced_set, digest |-> s.reduced_digest]

\* (mutant) the digest of the reduced set is compared instead
CheckedDigestReduced(s) == s.reduced_digest

\* the digest compared with the expected digest (rollup.rs:255-257)
CheckedDigest(s) == s.expanded_digest

\* RsaSet::remove: the backend removes the items, the new digest is allocated
\* and the circuit asserts new_digest^(product of items) = old digest mod m
RsaSetRemove(from, items, m) ==
    LET value == BackendRemoveAll(Unwrap(from.set), items)
        digest == BackendDigest(value)
    IN [set |-> Some(value), digest |-> Some(digest),
        holds |-> FoldModPow(digest, items, m) = Unwrap(from.digest)]

\* RsaSet::insert: the backend inserts the items, the new digest is allocated
\* and the circuit asserts new_digest = old digest^(product of items) mod m
RsaSetInsert(into, items, m) ==
    LET value == BackendInsertAll(Unwrap(into.set), items)
        digest == BackendDigest(value)
    IN [set |-> Some(value), digest |-> Some(digest),
        holds |-> digest = FoldModPow(Unwrap(into.digest), items, m)]

\* "Deleting elements" (rollup.rs:241-242)
SynRemove ==
    /\ syn_pc = "remove"
    /\ Println("Deleting elements")
    /\ IF Evaluates(cs)
       THEN LET r == RsaSetRemove(RemoveFrom(syn), Values(syn.removals),
                                  circuit.params.group.m)
            IN /\ syn' = [syn EXCEPT !.reduced_set = r.set, !.reduced_digest = r.digest]
               /\ cs' = Constrain([cs EXCEPT !.trace =
                                      Append(@, Entry("remove", "remove", -1, -1))],
                                  "remove", r.holds)
       ELSE /\ cs' = [cs EXCEPT !.trace = Append(@, Entry("remove", "remove", -1, -1))]
            /\ UNCHANGED syn
    /\ syn_pc' = "insert"
    /\ UNCHANGED circuit

\* "Inserting elements" (rollup.rs:244-246)
SynInsert ==
    /\ syn_pc = "insert"
    /\ Println("Inserting elements")
    /\ IF Evaluates(cs)
       THEN LET r == RsaSetInsert(InsertInto(syn), Values(syn.insertions),
                                  circuit.params.group.m)
            IN /\ syn' = [syn EXCEPT !.expanded_set = r.set, !.expanded_digest = r.digest]
               /\ cs' = Constrain([cs EXCEPT !.trace =
                                      Append(@, Entry("insert", "insert", -1, -1))],
                                  "insert", r.holds)
       ELSE /\ cs' = [cs EXCEPT !.trace = Append(@, Entry("insert", "insert", -1, -1))]
            /\ UNCHANGED syn
    /\ syn_pc' = "expected digest"
    /\ UNCHANGED circuit

\* BigNat::alloc_from_nat of the expected digest (rollup.rs:247-252)
SynExpectedDigest ==
    /\ syn_pc = "expected digest"
    /\ IF Evaluates(cs) /\ circuit.inputs = None
       THEN /\ Fail("AssignmentMissing")
            /\ UNCHANGED cs
       ELSE /\ cs' = [cs EXCEPT !.trace =
                         Append(@, Entry("alloc", "expected_digest", -1, -1))]
            /\ syn' = [syn EXCEPT !.expected_digest =
                         IF Evaluates(cs)
                         THEN Some(Unwrap(circuit.inputs).final_digest)
                         ELSE None]
            /\ syn_pc' = "check"
    /\ UNCHANGED <<circuit, stdout>>

\* "Verifying resulting digest" (rollup.rs:254-258)
SynCheck ==
    /\ syn_pc = "check"
    /\ Println("Verifying resulting digest")
    /\ cs' = Constrain([cs EXCEPT !.trace = Append(@, Entry("equal", "check", -1, -1))],
                       "check",
                       Evaluates(cs) => CheckedDigest(syn) = syn.expected_digest)
    /\ syn' = [syn EXCEPT !.result = "Ok"]
    /\ syn_pc' = "returned"
    /\ UNCHANGED circuit

\* a step of synthesize leaves the caller where it is
InSynthesize(step) ==
    /\ step
    /\ UNCHANGED <<prog, pc, shape_trace, testVars, silentVars>>

\* a call of circuit.synthesize(&mut cs) with a fresh constraint system
CallSynthesize(c, kind) ==
    /\ circuit' = c
    /\ syn_pc' = "group"
    /\ syn' = SynLocals
    /\ cs' = NewCs(kind)

(***************************************************************************)
(* The test harness (test_helpers.rs, circuit_tests)                       *)
(***************************************************************************)
\* the steps whose gadgets enforce the constraints the model keeps
ConstraintOps == {"remove", "insert", "equal"}

\* cs.num_constraints()
num_constraints(c) ==
    Cardinality({k \in 1..Len(c.trace) : c.trace[k].op \in ConstraintOps})

\* cs.is_satisfied()
is_satisfied(c) == c.unsatisfied = {}

\* cs.which_is_unsatisfied(): the first constraint that does not hold
which_is_unsatisfied(c) ==
    IF "remove" \in c.unsatisfied THEN "remove"
    ELSE IF "insert" \in c.unsatisfied THEN "insert"
    ELSE "check"

\* cs.find_unconstrained(): every variable synthesize allocates goes into a
\* gadget that constrains it
find_unconstrained(c) == <<>>

\* let (circuit, is_sat) = $value; let mut cs = TestConstraintSystem::new();
\* circuit.synthesize(&mut cs) (test_helpers.rs:10-13)
TestStart ==
    /\ prog = "test" /\ pc = "test"
    /\ CallSynthesize(subject, "TestConstraintSystem")
    /\ pc' = "test synthesis"
    /\ UNCHANGED <<prog, shape_trace, testVars, exportVars>>

\* .expect("synthesis failed"), the prints and the assert_eq!
\* (test_helpers.rs:13-23)
TestAssert ==
    /\ prog = "test" /\ pc = "test synthesis" /\ syn_pc = "returned"
    /\ IF syn.result # "Ok"
       THEN /\ test_result' = "synthesis failed"
            /\ exit_status' = "panicked"
            /\ UNCHANGED stdout
       ELSE /\ test_result' = IF is_satisfied(cs) THEN "satisfied" ELSE "unsatisfied"
            /\ stdout' =
                 stdout
                 \o << <<"Constraints in", subject.origin, num_constraints(cs)>> >>
                 \o (IF is_sat /\ ~is_satisfied(cs)
                     THEN << <<"UNSAT", which_is_unsatisfied(cs)>> >> ELSE <<>>)
                 \o (IF Len(find_unconstrained(cs)) > 0
                     THEN << <<"Unconstrained in", subject.origin,
                               find_unconstrained(cs)>> >>
                     ELSE <<>>)
            /\ exit_status' = IF is_satisfied(cs) = is_sat THEN "passed" ELSE "panicked"
    /\ pc' = "done"
    /\ UNCHANGED <<prog, subject, is_sat, synVars, shape_trace, args, group, fileVars,
                   run, last_run, rng, calls, keys, packed, initial_set, final_set>>

(***************************************************************************)
(* The export binary (export.rs)                                           *)
(***************************************************************************)
Paths == {"a.json", "b.json"}
NoFile == <<"no file">>
EmptyFile == <<"empty">>
OldFile == <<"written earlier">>

\* serde_json::to_string(&proving_key) / (&verification_key) of the keys of
\* run r (fresh randomness gives every run its own keys)
PkJson(r) == <<"proving key", r>>
VkJson(r) == <<"verifying key", r>>

ArgVectors == UNION {[1..k -> Paths] : k \in 0..MaxArgs}

UsageText == <<"Usage: \n<out_vk.json> <out_pk.json>">>


vk_filename == args[1]
pk_filename == args[2]

FreshRng == [instance |-> 0, pos |-> 0, draws |-> <<>>]

\* rand::thread_rng(): a handle to the generator of the calling thread, which
\* is created on the first call and lives as long as the thread
thread_rng(r) == IF r.instance = 0 THEN [r EXCEPT !.instance = 1] ELSE r

\* `count` values drawn through a handle for the backend call `by`
Draw(r, by, count) ==
    [r EXCEPT !.pos = @ + count,
              !.draws = Append(@, [by |-> by, instance |-> r.instance,
                                   first |-> r.pos, count |-> count])]

Panic ==
    /\ exit_status' = "panicked"
    /\ pc' = "exited"

\* (mutant) only too few arguments are refused
TooFewArguments == Len(args) < 2

\* args.len() != 3: the program name and two positional arguments
\* (export.rs:251)
WrongArgumentCount == Len(args) # 2

\* export.rs:250-257
MainArgs ==
    /\ prog = "export" /\ pc = "main"
    /\ IF WrongArgumentCount
       THEN /\ stdout' = Append(stdout, UsageText)
            /\ exit_status' = "usage error"
            /\ pc' = "exited"
       ELSE /\ pc' = "generate_params"
            /\ UNCHANGED <<stdout, exit_status>>
    /\ UNCHANGED <<prog, synVars, shape_trace, testVars, args, group, fileVars, run,
                   last_run, rng, calls, keys, packed, initial_set, final_set>>

\* generate_params up to the call of generate_random_parameters, which draws
\* the setup randomness and synthesizes the shape-only circuit
\* (export.rs:83-91)
GenerateParams ==
    /\ prog = "export" /\ pc = "generate_params"
    /\ rng' = Draw(thread_rng(rng), "generate_random_parameters", 7)
    /\ calls' = Append(calls, "generate_random_parameters")
    /\ CallSynthesize(ShapeCircuit(group), "KeypairAssembly")
    /\ pc' = "setup synthesis"
    /\ UNCHANGED <<prog, shape_trace, testVars, args, group, fileVars, stdout,
                   exit_status, run, last_run, keys, packed, initial_set, final_set>>

\* p.unwrap() (export.rs:91-92)
GenerateParamsReturn ==
    /\ prog = "export" /\ pc = "setup synthesis" /\ syn_pc = "returned"
    /\ syn_pc' = "idle"
    /\ IF syn.result = "Ok"
       THEN /\ keys' = Some([run |-> run, params |-> circuit.params])
            /\ shape_trace' = cs.trace
            /\ pc' = "generate_keys"
            /\ UNCHANGED exit_status
       ELSE /\ Panic
            /\ UNCHANGED <<keys, shape_trace>>
    /\ UNCHANGED <<prog, circuit, syn, cs, testVars, args, group, fileVars, stdout, run,
                   last_run, rng, calls, packed, initial_set, final_set>>

\* (mutant) create(true).truncate(true): an existing file is emptied
CreateTruncate(files, path) ==
    [ok |-> TRUE, files |-> [files EXCEPT ![path] = EmptyFile]]

\* OpenOptions::new().read(true).write(true).create_new(true).open(path):
\* fails when the path names an existing file, creates an empty file otherwise
CreateNew(files, path) ==
    IF files[path] # NoFile THEN [ok |-> FALSE, files |-> files]
    ELSE [ok |-> TRUE, files |-> [files EXCEPT ![path] = EmptyFile]]

\* set_len, Mmap::map, make_mut and write_all of the whole JSON text
WriteAll(files, path, json) == [files EXCEPT ![path] = json]

\* generate_keys from its entry to the open of the proving-key file
\* (export.rs:95-210)
KeysOpenPk ==
    /\ prog = "export" /\ pc = "generate_keys"
    /\ fs_at_call' = fs
    /\ LET r == CreateNew(fs, pk_filename)
       IN IF r.ok THEN /\ fs' = r.files
                       /\ pc' = "write pk"
                       /\ UNCHANGED exit_status
          ELSE /\ Panic
               /\ UNCHANGED fs
    /\ UNCHANGED <<prog, synVars, shape_trace, testVars, args, group, stdout, run,
                   last_run, rng, calls, keys, packed, initial_set, final_set>>

\* export.rs:211-214
KeysWritePk ==
    /\ prog = "export" /\ pc = "write pk"
    /\ fs' = WriteAll(fs, pk_filename, PkJson(Unwrap(keys).run))
    /\ pc' = "open vk"
    /\ UNCHANGED <<prog, synVars, shape_trace, testVars, args, group, fs_at_call, stdout,
                   exit_status, run, last_run, rng, calls, keys, packed, initial_set,
                   final_set>>

\* export.rs:216
KeysOpenVk ==
    /\ prog = "export" /\ pc = "open vk"
    /\ LET r == CreateNew(fs, vk_filename)
       IN IF r.ok THEN /\ fs' = r.files
                       /\ pc' = "write vk"
                       /\ UNCHANGED exit_status
          ELSE /\ Panic
               /\ UNCHANGED fs
    /\ UNCHANGED <<prog, synVars, shape_trace, testVars, args, group, fs_at_call, stdout,
                   run, last_run, rng, calls, keys, packed, initial_set, final_set>>

\* export.rs:217-220
KeysWriteVk ==
    /\ prog = "export" /\ pc = "write vk"
    /\ fs' = WriteAll(fs, vk_filename, VkJson(Unwrap(keys).run))
    /\ pc' = "print created"
    /\ UNCHANGED <<prog, synVars, shape_trace, testVars, args, group, fs_at_call, stdout,
                   exit_status, run, last_run, rng, calls, keys, packed, initial_set,
                   final_set>>

\* println!("Created {} and {}.", pk_filename, vk_filename); Ok("complete")
\* (export.rs:222-224)
KeysReturn ==
    /\ prog = "export" /\ pc = "print created"
    /\ stdout' = Append(stdout, <<"Created", pk_filename, vk_filename>>)
    /\ pc' = "construct_circuit"
    /\ UNCHANGED <<prog, synVars, shape_trace, testVars, args, group, fileVars,
                   exit_status, run, last_run, rng, calls, keys, packed, initial_set,
                   final_set>>

\* construct_circuit, thread_rng and the call of create_random_proof, which
\* draws r and s and then synthesizes the circuit (export.rs:268-271)
CreateProof ==
    /\ prog = "export" /\ pc = "construct_circuit"
    /\ subject' = construct_circuit(group)
    /\ rng' = Draw(thread_rng(rng), "create_random_proof", 2)
    /\ calls' = Append(calls, "create_random_proof")
    /\ CallSynthesize(construct_circuit(group), "ProvingAssignment")
    /\ pc' = "proof synthesis"
    /\ UNCHANGED <<prog, shape_trace, test_result, is_sat, args, group, fileVars, stdout,
                   exit_status, run, last_run, keys, packed, initial_set, final_set>>

\* GenSet::swap_all: remove the hashes of the removed items, insert those of
\* the inserted items
SwapAll(set, to_remove, to_insert, domain) ==
    BackendInsertAll(BackendRemoveAll(set, HashAll(to_remove, domain)),
                     HashAll(to_insert, domain))

\* nat_to_limbs(&n, 32, 64)
PackLimbs(n) == NatToLimbs(n, LIMB_WIDTH, PACK_N_LIMBS)

\* the values main packs, in order (export.rs:283-290)
PackedValues(grp, init_set, fin_set) ==
    <<grp.g, grp.m, BackendDigest(init_set), BackendDigest(fin_set)>>

\* main after the proof (export.rs:273-290): the circuit is constructed
\* again, initial_set and final_set are taken from its witness, and the Vec
\* `inputs` is filled; inputs is None when an unwrap of nat_to_limbs panics
PackInputs(grp) ==
    LET ins == Unwrap(construct_circuit(grp).inputs)
        init_set == ins.initial_state
        fin_set == SwapAll(init_set, ins.to_remove, ins.to_insert, ins.hash_domain)
        values == PackedValues(grp, init_set, fin_set)
        limbs == [k \in 1..Len(values) |-> PackLimbs(values[k])]
    IN [initial_set |-> init_set, final_set |-> fin_set,
        inputs |-> IF \E k \in 1..Len(limbs) : limbs[k] = None THEN None
                   ELSE Some(Unwrap(limbs[1]) \o Unwrap(limbs[2])
                             \o Unwrap(limbs[3]) \o Unwrap(limbs[4]))]

\* .unwrap() of the proof (export.rs:271) and, when there is a proof, the
\* rest of main: the public inputs are packed and main returns
\* (export.rs:273-296)
CreateProofReturn ==
    /\ prog = "export" /\ pc = "proof synthesis" /\ syn_pc = "returned"
    /\ syn_pc' = "idle"
    /\ IF syn.result = "Ok"
       THEN LET p == PackInputs(group)
            IN /\ initial_set' = Some(p.initial_set)
               /\ final_set' = Some(p.final_set)
               /\ IF p.inputs = None
                  THEN /\ Panic
                       /\ UNCHANGED packed
                  ELSE /\ packed' = Unwrap(p.inputs)
                       /\ exit_status' = "success"
                       /\ pc' = "exited"
       ELSE /\ Panic
            /\ UNCHANGED <<packed, initial_set, final_set>>
    /\ UNCHANGED <<prog, circuit, syn, cs, shape_trace, testVars, args, group, fileVars,
                   stdout, run, last_run, rng, calls, keys>>

\* the binary is started again, on the file system the earlier runs left
Rerun ==
    /\ prog = "export" /\ pc = "exited"
    /\ run < MaxRuns
    /\ run' = run + 1
    /\ last_run' = [args |-> args,
                   exported |-> \E k \in 1..Len(stdout) : stdout[k][1] = "Created"]
    /\ args' \in ArgVectors
    /\ pc' = "main"
    /\ stdout' = <<>>
    /\ exit_status' = "running"
    /\ rng' = FreshRng
    /\ calls' = <<>>
    /\ keys' = None
    /\ fs_at_call' = fs
    /\ UNCHANGED <<prog, synVars, shape_trace, testVars, group, fs, packed,
                   initial_set, final_set>>

vars == <<prog, pc, circuit, syn_pc, syn, cs, shape_trace, subject, test_result,
          is_sat, args, group, fs, fs_at_call, stdout, exit_status, run, last_run, rng,
          calls, keys, packed, initial_set, final_set>>

ExportIdle ==
    /\ args = <<>>
    /\ group = BenchGroup
    /\ fs = [p \in Paths |-> NoFile]
    /\ fs_at_call = fs
    /\ stdout = <<>>
    /\ exit_status = "running"
    /\ run = 0
    /\ last_run = [args |-> <<>>, exported |-> FALSE]
    /\ rng = FreshRng
    /\ calls = <<>>
    /\ keys = None
    /\ packed = <<>>
    /\ initial_set = None
    /\ final_set = None

\* the is_sat a test passes with its circuit: true in small_rsa_1_swap
\* (rollup.rs:302); for the drawn circuits, the value the test would be
\* written with, and for a matching witness also the opposite
Expectations(c) ==
    IF c.origin = "matching" THEN BOOLEAN
    ELSE IF c.origin = "tampered" THEN {FALSE}
    ELSE {TRUE}

InitTest ==
    /\ prog = "test"
    /\ pc = "test"
    /\ subject \in HarnessCircuits
    /\ is_sat \in Expectations(subject)
    /\ circuit = subject
    /\ syn_pc = "idle"
    /\ syn = SynLocals
    /\ cs = NoCs
    /\ shape_trace = <<>>
    /\ test_result = "none"
    /\ ExportIdle

InitExport ==
    /\ prog = "export"
    /\ pc = "main"
    /\ args \in ArgVectors
    /\ group = BenchGroup
    /\ fs \in [Paths -> {NoFile, OldFile}]
    /\ fs_at_call = fs
    /\ stdout = <<>>
    /\ exit_status = "running"
    /\ run = 1
    /\ last_run = [args |-> <<>>, exported |-> FALSE]
    /\ rng = FreshRng
    /\ calls = <<>>
    /\ keys = None
    /\ packed = <<>>
    /\ initial_set = None
    /\ final_set = None
    /\ subject = construct_circuit(BenchGroup)
    /\ circuit = subject
    /\ syn_pc = "idle"
    /\ syn = SynLocals
    /\ cs = NoCs
    /\ shape_trace = <<>>
    /\ test_result = "none"
    /\ is_sat = TRUE


\* the test harness on a drawn test, the export binary on drawn arguments and
\* files
Init == InitTest \/ InitExport

Next ==
    \/ TestStart \/ TestAssert
    \/ InSynthesize(SynGroup)
    \/ InSynthesize(SynChallenge)
    \/ InSynthesize(SynSetInit)
    \/ InSynthesize(SynHashRemoval)
    \/ InSynthesize(SynRemovalsHashed)
    \/ InSynthesize(SynHashInsertion)
    \/ InSynthesize(SynInsertionsHashed)
    \/ InSynthesize(SynRemove)
    \/ InSynthesize(SynInsert)
    \/ InSynthesize(SynExpectedDigest)
    \/ InSynthesize(SynCheck)
    \/ MainArgs \/ GenerateParams \/ GenerateParamsReturn
    \/ KeysOpenPk \/ KeysWritePk \/ KeysOpenVk \/ KeysWriteVk \/ KeysReturn
    \/ CreateProof \/ CreateProofReturn
    \/ Rerun

Spec == Init /\ [][Next]_vars

(***************************************************************************)
(* The encoding of the keys (export.rs:95-208), applied to drawn           *)
(* Parameters                                                              *)
(***************************************************************************)
\* the n_digits lowest digits of n in the radix, most significant first
RECURSIVE PaddedDigits(_, _, _)
PaddedDigits(n, radix, n_digits) ==
    IF n_digits = 0 THEN <<>>
    ELSE Append(PaddedDigits(n \div radix, radix, n_digits - 1),
                HexDigits[(n % radix) + 1])

\* format!("{}", r) of a field representation: "0x" and every hex digit of
\* its limbs, leading zeros included
ReprText(r) == <<"0", "x">> \o PaddedDigits(r, 16, REPR_HEX_DIGITS)

\* BigUint::from_str_radix(text, radix).unwrap()
RECURSIVE FromStrRadix(_, _)
FromStrRadix(text, radix) ==
    IF text = <<>> THEN 0
    ELSE FromStrRadix(SubSeq(text, 1, Len(text) - 1), radix) * radix
         + DigitValue(text[Len(text)])

\* repr_to_big (export.rs:109-111): the text without its first two
\* characters, read as hexadecimal, written as decimal
repr_to_big(r) ==
    LET text == ReprText(r)
    IN ToStrRadix(FromStrRadix(SubSeq(text, 3, Len(text)), 16), 10)

\* an affine point of G1: coordinates in Fq; of G2: coordinates in Fq2
G1Affine(x, y, infinity) == [x |-> x, y |-> y, infinity |-> infinity]
G2Affine(x, y, infinity) == [x |-> x, y |-> y, infinity |-> infinity]
Fq2(c0, c1) == [c0 |-> c0, c1 |-> c1]

\* CurveAffine::is_zero: the point at infinity
is_zero(p) == p.infinity

\* p1_to_vec (export.rs:113-126)
p1_to_vec(p) ==
    <<repr_to_big(p.x), repr_to_big(p.y)>>
    \o (IF is_zero(p) THEN << <<"0">> >> ELSE << <<"1">> >>)

\* p2_to_vec (export.rs:128-149)
p2_to_vec(p) ==
    << <<repr_to_big(p.x.c0), repr_to_big(p.x.c1)>>,
       <<repr_to_big(p.y.c0), repr_to_big(p.y.c1)>> >>
    \o (IF is_zero(p) THEN << << <<"0">>, <<"0">> >> >>
        ELSE << << <<"1">>, <<"0">> >> >>)

\* for e in points.iter() { out.push(p1_to_vec(e)) }
EachP1(points) == [k \in 1..Len(points) |-> p1_to_vec(points[k])]

\* for e in points.iter() { out.push(p2_to_vec(e)) }
EachP2(points) == [k \in 1..Len(points) |-> p2_to_vec(points[k])]

\* for e in c.iter() { proving_key.c.push(Some(p1_to_vec(e))) }
EachSomeP1(points) == [k \in 1..Len(points) |-> Some(p1_to_vec(points[k]))]

\* the ProvingKeyJson generate_keys fills (export.rs:96-107, 151-189)
ProvingKeyJson(params) ==
    [a          |-> EachP1(params.a),
     b1         |-> EachP1(params.b_g1),
     b2         |-> EachP2(params.b_g2),
     c          |-> [k \in 1..Len(params.vk.ic) |-> None] \o EachSomeP1(params.l),
     vk_alfa_1  |-> p1_to_vec(params.vk.alpha_g1),
     vk_beta_1  |-> p1_to_vec(params.vk.beta_g1),
     vk_delta_1 |-> p1_to_vec(params.vk.delta_g1),
     vk_beta_2  |-> p2_to_vec(params.vk.beta_g2),
     vk_delta_2 |-> p2_to_vec(params.vk.delta_g2),
     h          |-> EachP1(params.h)]

\* the VerifyingKeyJson generate_keys fills (export.rs:191-208)
VerifyingKeyJson(params) ==
    [ic         |-> EachP1(params.vk.ic),
     vk_alfa_1  |-> p1_to_vec(params.vk.alpha_g1),
     vk_beta_2  |-> p2_to_vec(params.vk.beta_g2),
     vk_gamma_2 |-> p2_to_vec(params.vk.gamma_g2),
     vk_delta_2 |-> p2_to_vec(params.vk.delta_g2)]

\* the points the encoding is applied to: the point at infinity (x = 0,
\* y = 1) and finite points
G1Points == {G1Affine(0, 1, TRUE), G1Affine(1, 2, FALSE), G1Affine(26, 171, FALSE)}
G2Points == {G2Affine(Fq2(0, 0), Fq2(1, 0), TRUE),
             G2Affine(Fq2(18, 7), Fq2(200, 31), FALSE)}

PointVectors(points) == UNION {[1..n -> points] : n \in 0..MaxPoints}

\* Parameters<Bn256>: the fields generate_keys reads
DrawnParameters ==
    {[a |-> a, b_g1 |-> a, b_g2 |-> b2, l |-> l, h |-> l \o a,
      vk |-> [alpha_g1 |-> p, beta_g1 |-> p, delta_g1 |-> p,
              beta_g2 |-> p2, gamma_g2 |-> p2, delta_g2 |-> p2, ic |-> ic]] :
        a \in PointVectors(G1Points), b2 \in PointVectors(G2Points),
        l \in PointVectors(G1Points), ic \in PointVectors(G1Points),
        p \in G1Points, p2 \in G2Points}

\* generate_keys from its entry to the written proving-key file
\* (export.rs:95-214)
EncodePk ==
    /\ prog = "keys" /\ pc = "generate_keys"
    /\ fs_at_call' = fs
    /\ LET r == CreateNew(fs, pk_filename)
       IN IF r.ok
          THEN /\ fs' = WriteAll(r.files, pk_filename, ProvingKeyJson(Unwrap(keys)))
               /\ pc' = "open vk"
               /\ UNCHANGED exit_status
          ELSE /\ Panic
               /\ UNCHANGED fs
    /\ UNCHANGED <<prog, synVars, shape_trace, testVars, args, group, stdout, run,
                   last_run, rng, calls, keys, packed, initial_set, final_set>>

\* export.rs:216-220
EncodeVk ==
    /\ prog = "keys" /\ pc = "open vk"
    /\ LET r == CreateNew(fs, vk_filename)
       IN IF r.ok
          THEN /\ fs' = WriteAll(r.files, vk_filename, VerifyingKeyJson(Unwrap(keys)))
               /\ pc' = "print created"
               /\ UNCHANGED exit_status
          ELSE /\ Panic
               /\ UNCHANGED fs
    /\ UNCHANGED <<prog, synVars, shape_trace, testVars, args, group, fs_at_call, stdout,
                   run, last_run, rng, calls, keys, packed, initial_set, final_set>>

\* export.rs:222-224
EncodeReturn ==
    /\ prog = "keys" /\ pc = "print created"
    /\ stdout' = Append(stdout, <<"Created", pk_filename, vk_filename>>)
    /\ pc' = "exported"
    /\ UNCHANGED <<prog, synVars, shape_trace, testVars, args, group, fileVars,
                   exit_status, run, last_run, rng, calls, keys, packed, initial_set,
                   final_set>>

InitKeys ==
    /\ prog = "keys"
    /\ pc = "generate_keys"
    /\ keys \in {Some(params) : params \in DrawnParameters}
    /\ group = BenchGroup
    /\ args = <<"a.json", "b.json">>
    /\ fs = [p \in Paths |-> NoFile]
    /\ fs_at_call = fs
    /\ stdout = <<>>
    /\ exit_status = "running"
    /\ run = 1
    /\ last_run = [args |-> <<>>, exported |-> FALSE]
    /\ rng = FreshRng
    /\ calls = <<>>
    /\ packed = <<>>
    /\ initial_set = None
    /\ final_set = None
    /\ subject = construct_circuit(group)
    /\ circuit = subject
    /\ syn_pc = "idle"
    /\ syn = SynLocals
    /\ cs = NoCs
    /\ shape_trace = <<>>
    /\ test_result = "none"
    /\ is_sat = TRUE

NextKeys == EncodePk \/ EncodeVk \/ EncodeReturn

KeySpec == InitKeys /\ [][NextKeys]_vars

(***************************************************************************)
(* Reference arithmetic used to state the properties                       *)
(***************************************************************************)
\* the multiplicative order of g modulo m (g and m coprime)
Order(g, m) ==
    CHOOSE k \in 1..m : /\ ModPow(g, k, m) = 1
                        /\ \A j \in 1..(k - 1) : ModPow(g, j, m) # 1

RECURSIVE ProductMod(_, _)
ProductMod(ns, n) ==
    IF ns = <<>> THEN 1 % n ELSE ((Head(ns) % n) * ProductMod(Tail(ns), n)) % n

\* g^(product of ns) mod m, through the exponent reduced modulo the order of g
PowerOfProduct(grp, ns) == ModPow(grp.g, ProductMod(ns, Order(grp.g, grp.m)), grp.m)

RECURSIVE LimbsToNat(_, _)
LimbsToNat(limbs, limb_width) ==
    IF limbs = <<>> THEN 0
    ELSE Head(limbs) + Pow2(limb_width) * LimbsToNat(Tail(limbs), limb_width)

\* the hashes, under the witness's own descriptor, of the lists a witness was built from
Built(c) == Unwrap(c.inputs).built
BuiltHashes(c, field) == HashAll(Built(c)[field], Unwrap(c.inputs).hash_domain)

\* the allocations and gadget calls of a synthesis of the params, in order
RECURSIVE ItemEntries(_, _, _, _)
ItemEntries(n_items, item_size, alloc_name, hash_name) ==
    IF n_items = 0 THEN <<>>
    ELSE ItemEntries(n_items - 1, item_size, alloc_name, hash_name)
         \o [j \in 1..item_size |-> Entry("alloc", alloc_name, n_items - 1, j - 1)]
         \o <<Entry("hash", hash_name, n_items - 1, -1)>>

StepOrder(params) ==
    <<Entry("alloc_input", "group", -1, -1), Entry("alloc", "challenge", -1, -1),
      Entry("set alloc", "set init", -1, -1)>>
    \o ItemEntries(params.n_removes, params.item_size, "remove", "hash remove")
    \o ItemEntries(params.n_inserts, params.item_size, "inset", "hash insert")
    \o <<Entry("remove", "remove", -1, -1), Entry("insert", "insert", -1, -1),
         Entry("alloc", "expected_digest", -1, -1), Entry("equal", "check", -1, -1)>>

IsPrefix(s, t) == Len(s) <= Len(t) /\ s = SubSeq(t, 1, Len(s))

Synthesizing == syn_pc # "idle"

TestSynthesisReturned ==
    prog = "test" /\ pc \in {"test synthesis", "done"} /\ syn_pc = "returned"

(***************************************************************************)
(* C1: for an initial digest D = g^(product of the hashes of E), a         *)
(* non-empty R within E and any I, with the params matching the witness,   *)
(* synthesis returns Ok and the constraint system is satisfied exactly     *)
(* when the claimed final digest is (D^(1/product hash(R)))^(product       *)
(* hash(I)) mod m; any other claimed digest leaves it unsatisfied.         *)
(***************************************************************************)
C1_Case ==
    /\ TestSynthesisReturned
    /\ subject.origin \in {"matching", "tampered", "small_rsa_1_swap"}
    /\ Built(subject).removed # <<>>

C1_TransitionAccepted ==
    C1_Case =>
        LET grp == subject.params.group
            root == PowerOfProduct(grp, BuiltHashes(subject, "untouched"))
            honest == ModPow(root,
                             ProductMod(BuiltHashes(subject, "inserted"),
                                        Order(grp.g, grp.m)),
                             grp.m)
        IN /\ syn.result = "Ok"
           \* root is the (product of hash(R))-th root of the initial digest D
           /\ FoldModPow(root, BuiltHashes(subject, "removed"), grp.m)
                = Unwrap(syn.set_digest)
           /\ (cs.unsatisfied = {}) <=> (Unwrap(subject.inputs).final_digest = honest)

C1_Witness ==
    /\ C1_Case
    /\ subject.origin = "tampered"
    /\ Built(subject).untouched # <<>>
    /\ Len(Built(subject).inserted) = 2
    /\ "check" \in cs.unsatisfied

(***************************************************************************)
(* C2: a witness built by RollupInputs::new holds, as initial state,       *)
(* exactly the hashes of the untouched and removed items; its final digest *)
(* is g^(product of the hashes of the untouched and inserted items) mod m  *)
(* and equals the digest after removing the removed and inserting the      *)
(* inserted elements; a circuit whose params match it synthesizes without  *)
(* error and is satisfied.                                                 *)
(***************************************************************************)
C2_Case ==
    /\ prog = "test"
    /\ subject.origin \in {"matching", "small_rsa_1_swap"}

C2_WitnessSatisfies ==
    C2_Case =>
        LET w == Unwrap(subject.inputs)
            grp == w.built.group
            kept == BuiltHashes(subject, "untouched")
            gone == BuiltHashes(subject, "removed")
            added == BuiltHashes(subject, "inserted")
        IN /\ w.initial_state.elements = SeqToBag(kept \o gone)
           /\ w.final_digest = PowerOfProduct(grp, kept \o added)
           /\ w.final_digest =
                BackendDigest(BackendInsertAll(
                                  BackendRemoveAll(w.initial_state, gone), added))
           /\ TestSynthesisReturned => syn.result = "Ok" /\ cs.unsatisfied = {}
           /\ pc = "done" => test_result = "satisfied"

C2_Witness ==
    /\ C2_Case
    /\ pc = "done"
    /\ test_result = "satisfied"
    /\ subject.origin = "matching"
    /\ Built(subject).untouched # <<>>
    /\ Len(Built(subject).removed) = 2
    /\ Built(subject).removed[1] = Built(subject).removed[2]
    /\ Len(Built(subject).inserted) = 2

(***************************************************************************)
(* C3: key export never overwrites.  A file that exists at the proving-key *)
(* or verifying-key destination when generate_keys is called keeps its     *)
(* content and makes generate_keys fail; a second run with the paths of a  *)
(* run that exported both keys fails and leaves both files as that run     *)
(* wrote them.                                                             *)
(***************************************************************************)
GenerateKeysCalled ==
    prog = "export" /\ Len(args) = 2 /\ keys # None /\ pc # "generate_keys"

GenerateKeysReturned ==
    /\ GenerateKeysCalled
    /\ \/ pc \in {"construct_circuit", "proof synthesis"}
       \/ pc = "exited" /\ Len(calls) > 1

DestinationExisted ==
    fs_at_call[pk_filename] # NoFile \/ fs_at_call[vk_filename] # NoFile

SamePathsAsExportingRun ==
    prog = "export" /\ run > 1 /\ last_run.exported /\ last_run.args = args

C3_NeverOverwrites ==
    /\ \A p \in Paths : fs_at_call[p] # NoFile => fs[p] = fs_at_call[p]
    /\ (GenerateKeysCalled /\ DestinationExisted) =>
            /\ ~GenerateKeysReturned
            /\ pc \in {"write pk", "open vk", "exited"}
            /\ pc = "exited" => exit_status = "panicked"
    /\ SamePathsAsExportingRun =>
            /\ fs[pk_filename] = PkJson(run - 1)
            /\ fs[vk_filename] = VkJson(run - 1)
            /\ pc \in {"main", "generate_params", "setup synthesis",
                       "generate_keys", "exited"}
            /\ pc = "exited" => exit_status = "panicked"

C3_Witness ==
    /\ SamePathsAsExportingRun
    /\ GenerateKeysCalled
    /\ pc = "exited"
    /\ exit_status = "panicked"
    /\ fs[pk_filename] = PkJson(1)

(***************************************************************************)
(* C4: in every circuit the tests and the export binary build, each item   *)
(* hashed in the circuit is hashed under the descriptor the witness was    *)
(* computed with: n_trailing_ones = 1 and n_bits = the shape's n_bits_elem.*)
(***************************************************************************)
C4_Case ==
    prog = "export" \/ (prog = "test" /\ subject.origin = "small_rsa_1_swap")

C4_SameHashDomain ==
    C4_Case =>
        \A k \in 1..Len(syn.hash_domains) :
            /\ syn.hash_domains[k] = Unwrap(subject.inputs).hash_domain
            /\ syn.hash_domains[k].n_trailing_ones = 1
            /\ syn.hash_domains[k].n_bits = circuit.params.n_bits_elem

C4_Witness ==
    /\ prog = "export"
    /\ pc = "proof synthesis"
    /\ circuit.inputs # None
    /\ Len(syn.hash_domains) = 1
    /\ IsSome(syn.removals[1])

(***************************************************************************)
(* C5: shape determinism.  A synthesis that returns Ok, whatever the       *)
(* witness values and whether the witness is present or absent, performs   *)
(* the allocations and gadget calls that its RollupParams alone determine, *)
(* in the same order; in the export run the synthesis of the proof         *)
(* follows the trace the synthesis of generate_params left.                *)
(***************************************************************************)
SynthesisReturnedOk == syn_pc = "returned" /\ syn.result = "Ok"

C5_ShapeDeterminism ==
    /\ SynthesisReturnedOk => cs.trace = StepOrder(circuit.params)
    /\ (prog = "export" /\ keys # None) =>
          /\ shape_trace = StepOrder(Unwrap(keys).params)
          /\ (Synthesizing /\ circuit.params = Unwrap(keys).params) =>
                IsPrefix(cs.trace, shape_trace)

C5_Witness ==
    /\ SynthesisReturnedOk
    /\ subject.origin = "tampered"
    /\ cs.unsatisfied # {}
    /\ subject.params.n_removes = 2
    /\ Len(Unwrap(subject.inputs).to_remove) = 2
    /\ Len(cs.trace) > 20

(***************************************************************************)
(* C6: the public inputs are the generator, the modulus and the final      *)
(* digest and nothing else: a synthesis that returns Ok has exposed        *)
(* exactly these three as public inputs, in this order, and the vector     *)
(* main has packed when it returns is the limbs of the generator, then of  *)
(* the modulus, then of the final digest, each with the same limb width    *)
(* and limb count.                                                         *)
(***************************************************************************)
ClaimedPublicInputs == <<"group.g", "group.m", "expected_digest">>

Chunk(k) == SubSeq(packed, (k - 1) * PACK_N_LIMBS + 1, k * PACK_N_LIMBS)

MainReturned == prog = "export" /\ pc = "exited" /\ exit_status = "success"

C6_PublicInputs ==
    /\ SynthesisReturnedOk => cs.inputs = ClaimedPublicInputs
    /\ MainReturned =>
          /\ Len(packed) = 3 * PACK_N_LIMBS
          /\ LimbsToNat(Chunk(1), LIMB_WIDTH) = group.g
          /\ LimbsToNat(Chunk(2), LIMB_WIDTH) = group.m
          /\ LimbsToNat(Chunk(3), LIMB_WIDTH) = BackendDigest(Unwrap(final_set))

\* the setup synthesis of an export run has returned: the expected digest
\* was allocated and the group alone is a public input
C6_Witness ==
    /\ prog = "export" /\ pc = "setup synthesis"
    /\ SynthesisReturnedOk
    /\ \E k \in 1..Len(cs.trace) : cs.trace[k].name = "expected_digest"
    /\ cs.inputs = <<"group.g", "group.m">>

(***************************************************************************)
(* C7: the circuit handed to create_random_proof carries a witness with at *)
(* least n_removes items to remove and n_inserts items to insert, each of  *)
(* item_size values, so no witness access of the synthesis finds a value   *)
(* absent.                                                                 *)
(***************************************************************************)
CompleteList(items, n, item_size) ==
    /\ Len(items) >= n
    /\ \A k \in 1..n : Len(items[k]) >= item_size

WitnessComplete(c) ==
    /\ c.inputs # None
    /\ CompleteList(Unwrap(c.inputs).to_remove, c.params.n_removes, c.params.item_size)
    /\ CompleteList(Unwrap(c.inputs).to_insert, c.params.n_inserts, c.params.item_size)

C7_ProofWitnessComplete ==
    (prog = "export" /\ pc = "proof synthesis") =>
        /\ WitnessComplete(circuit)
        /\ syn.result # "AssignmentMissing"

(***************************************************************************)
(* C8: every call of create_random_proof is preceded, in the same run, by  *)
(* a satisfiability check of the witness against the circuit.              *)
(***************************************************************************)
C8_SatisfiabilityCheckedBeforeProof ==
    \A k \in 1..Len(calls) :
        calls[k] = "create_random_proof" =>
            \E j \in 1..(k - 1) : calls[j] = "is_satisfied"

(***************************************************************************)
(* C9: parameter generation runs at most once per run, and proof           *)
(* generation does not draw from the randomness source that parameter      *)
(* generation drew from.                                                   *)
(***************************************************************************)
C9_SetupRandomnessSingleUse ==
    /\ Cardinality({k \in 1..Len(calls) : calls[k] = "generate_random_parameters"}) <= 1
    /\ \A a, b \in 1..Len(rng.draws) :
          (rng.draws[a].by = "generate_random_parameters"
             /\ rng.draws[b].by = "create_random_proof")
          => rng.draws[b].instance # rng.draws[a].instance

(***************************************************************************)
(* C10: with an argument count other than two, main prints the usage       *)
(* message and exits with the usage-error status before it generates       *)
(* parameters or creates a file; with two arguments the verifying key goes *)
(* to the first path and the proving key to the second, and a key export   *)
(* that succeeds prints both file names.                                   *)
(***************************************************************************)
C10_CommandSurface ==
    prog = "export" =>
        /\ Len(args) # 2 =>
              /\ pc \in {"main", "exited"}
              /\ calls = <<>> /\ rng.draws = <<>> /\ keys = None
              /\ fs = fs_at_call
              /\ pc = "exited" => exit_status = "usage error" /\ stdout = <<UsageText>>
        /\ Len(args) = 2 =>
              /\ exit_status # "usage error"
              /\ UsageText \notin {stdout[k] : k \in 1..Len(stdout)}
              /\ \A p \in Paths :
                    /\ fs[p] = PkJson(run) => p = args[2]
                    /\ fs[p] = VkJson(run) => p = args[1]
                    /\ fs[p] # fs_at_call[p] => p \in {args[1], args[2]}
              /\ GenerateKeysReturned =>
                    /\ fs[args[2]] = PkJson(run) /\ fs[args[1]] = VkJson(run)
                    /\ \E k \in 1..Len(stdout) :
                          stdout[k] = <<"Created", args[2], args[1]>>
              /\ \A k \in 1..Len(stdout) :
                    stdout[k][1] = "Created" =>
                        /\ GenerateKeysReturned
                        /\ stdout[k] = <<"Created", args[2], args[1]>>

C10_Witness ==
    /\ prog = "export"
    /\ Len(args) = 3
    /\ pc = "exited"
    /\ exit_status = "usage error"
    /\ \E p \in Paths : fs[p] = NoFile

(***************************************************************************)
(* C11: in every exported key each G1 point is encoded as                  *)
(* [x, y, is_infinity] and each G2 point as                                *)
(* [[x_c0, x_c1], [y_c0, y_c1], [is_infinity, "0"]], the coordinates in    *)
(* decimal, is_infinity being "1" exactly when the point is the point at   *)
(* infinity and "0" otherwise.                                             *)
(***************************************************************************)
Decimal(n) == ToStrRadix(n, 10)

InfinityFlag(p) == IF p.infinity THEN <<"1">> ELSE <<"0">>

ClaimedG1(p) == <<Decimal(p.x), Decimal(p.y), InfinityFlag(p)>>

ClaimedG2(p) ==
    << <<Decimal(p.x.c0), Decimal(p.x.c1)>>,
       <<Decimal(p.y.c0), Decimal(p.y.c1)>>,
       <<InfinityFlag(p), <<"0">> >> >>

EncodedAsG1(encoded, points) ==
    /\ Len(encoded) = Len(points)
    /\ \A k \in 1..Len(points) : encoded[k] = ClaimedG1(points[k])

EncodedAsG2(encoded, points) ==
    /\ Len(encoded) = Len(points)
    /\ \A k \in 1..Len(points) : encoded[k] = ClaimedG2(points[k])

KeysExported == prog = "keys" /\ pc = "exported"

C11_PointEncodings ==
    KeysExported =>
        LET params == Unwrap(keys)
            pk == fs[pk_filename]
            vk == fs[vk_filename]
        IN /\ EncodedAsG1(pk.a, params.a)
           /\ EncodedAsG1(pk.b1, params.b_g1)
           /\ EncodedAsG2(pk.b2, params.b_g2)
           /\ EncodedAsG1(pk.h, params.h)
           /\ \A k \in 1..Len(params.l) :
                 pk.c[Len(params.vk.ic) + k] = Some(ClaimedG1(params.l[k]))
           /\ pk.vk_alfa_1 = ClaimedG1(params.vk.alpha_g1)
           /\ pk.vk_beta_1 = ClaimedG1(params.vk.beta_g1)
           /\ pk.vk_delta_1 = ClaimedG1(params.vk.delta_g1)
           /\ pk.vk_beta_2 = ClaimedG2(params.vk.beta_g2)
           /\ pk.vk_delta_2 = ClaimedG2(params.vk.delta_g2)
           /\ EncodedAsG1(vk.ic, params.vk.ic)
           /\ vk.vk_alfa_1 = ClaimedG1(params.vk.alpha_g1)
           /\ vk.vk_beta_2 = ClaimedG2(params.vk.beta_g2)
           /\ vk.vk_gamma_2 = ClaimedG2(params.vk.gamma_g2)
           /\ vk.vk_delta_2 = ClaimedG2(params.vk.delta_g2)

\* a key exported with finite points only, whose flags are all "1"
C11_Witness ==
    /\ KeysExported
    /\ LET params == Unwrap(keys)
       IN /\ params.vk.ic # <<>> /\ params.a # <<>> /\ params.b_g2 # <<>>
          /\ \A k \in 1..Len(params.vk.ic) : ~params.vk.ic[k].infinity
          /\ ~params.vk.alpha_g1.infinity /\ ~params.vk.beta_g2.infinity
          /\ fs[vk_filename].ic[1][3] = <<"1">>
          /\ fs[vk_filename].vk_alfa_1[3] = <<"1">>
          /\ fs[vk_filename].vk_beta_2[3] = << <<"1">>, <<"0">> >>
          /\ fs[vk_filename].ic[1][1] = Decimal(params.vk.ic[1].x)

(***************************************************************************)
(* C12: Rollup::synthesize applies its steps in one order: group,          *)
(* challenge, the initial set taken from the witness, every to-remove item *)
(* and then every to-insert item allocated and hashed, remove on the       *)
(* initial set, insert on the reduced set remove returned, the expected    *)
(* digest, and the equality of the expanded set's digest with it.          *)
(***************************************************************************)
C12_FixedStepOrder ==
    Synthesizing =>
        /\ IsPrefix(cs.trace, StepOrder(circuit.params))
        /\ (syn_pc = "returned" /\ syn.result = "Ok") =>
                cs.trace = StepOrder(circuit.params)
        /\ IsSome(syn.set) =>
                syn.set = Some(Unwrap(subject.inputs).initial_state)
        /\ IsSome(syn.reduced_set) =>
                /\ Len(syn.removals) = circuit.params.n_removes
                /\ Len(syn.insertions) = circuit.params.n_inserts
                /\ syn.reduced_set =
                      Some(BackendRemoveAll(Unwrap(syn.set), Values(syn.removals)))
                /\ syn.reduced_digest = Some(BackendDigest(Unwrap(syn.reduced_set)))
        /\ IsSome(syn.expanded_set) =>
                /\ syn.expanded_set =
                      Some(BackendInsertAll(Unwrap(syn.reduced_set),
                                            Values(syn.insertions)))
                /\ syn.expanded_digest = Some(BackendDigest(Unwrap(syn.expanded_set)))
        /\ (syn_pc = "returned" /\ syn.result = "Ok" /\ Evaluates(cs)) =>
                /\ syn.expected_digest = Some(Unwrap(subject.inputs).final_digest)
                /\ ("check" \in cs.unsatisfied)
                      <=> (syn.expanded_digest # syn.expected_digest)

C12_Witness ==
    /\ syn_pc = "returned" /\ syn.result = "Ok"
    /\ Evaluates(cs)
    /\ circuit.params.n_removes = 2 /\ circuit.params.n_inserts = 1
    /\ syn.reduced_set # syn.set
    /\ syn.expanded_set # syn.reduced_set
    /\ syn.expanded_set # syn.set
    /\ syn.expanded_digest # syn.set_digest
    /\ cs.unsatisfied = {}

(***************************************************************************)
(* C13: when the closures are evaluated (proving, and the test system) and *)
(* a value the shape requires is absent from the witness, synthesize       *)
(* returns AssignmentMissing at the first access that finds nothing: the   *)
(* trace ends there, remove, insert and the equality check are not run, no *)
(* set or digest of a later step exists, and the caller gets nothing but   *)
(* the error.  Without an absent value there is no AssignmentMissing.      *)
(***************************************************************************)
ValuesRequired == cs.kind \in {"TestConstraintSystem", "ProvingAssignment"}

\* the values of item i (from 0) of a list that can be read, item_size at most
Readable(items, i, item_size) ==
    IF i >= Len(items) THEN 0
    ELSE IF Len(items[i + 1]) < item_size THEN Len(items[i + 1]) ELSE item_size

\* the items before the first one that lacks a value, n at most
RECURSIVE FullItems(_, _, _)
FullItems(items, n, item_size) ==
    IF n = 0 THEN 0
    ELSE LET before == FullItems(items, n - 1, item_size)
         IN IF before = n - 1 /\ Readable(items, n - 1, item_size) = item_size
            THEN n ELSE before

\* the trace entries made before the first access that finds nothing
EntriesBeforeAbort(c) ==
    IF c.inputs = None THEN 2
    ELSE LET w == Unwrap(c.inputs)
             size == c.params.item_size
             r == FullItems(w.to_remove, c.params.n_removes, size)
             i == FullItems(w.to_insert, c.params.n_inserts, size)
         IN IF r < c.params.n_removes
            THEN 3 + r * (size + 1) + Readable(w.to_remove, r, size)
            ELSE 3 + (r + i) * (size + 1) + Readable(w.to_insert, i, size)

LaterSteps == {"remove", "insert", "equal"}

ValueAbsent(c) == ValuesRequired /\ ~WitnessComplete(c)

C13_AbortOnAbsentValue ==
    Synthesizing =>
        /\ ValueAbsent(circuit) =>
              /\ Len(cs.trace) <= EntriesBeforeAbort(circuit)
              /\ \A k \in 1..Len(cs.trace) : cs.trace[k].op \notin LaterSteps
              /\ syn.reduced_set = None /\ syn.reduced_digest = None
              /\ syn.expanded_set = None /\ syn.expanded_digest = None
              /\ syn.expected_digest = None
              /\ cs.unsatisfied = {}
              /\ syn_pc = "returned" =>
                    /\ syn.result = "AssignmentMissing"
                    /\ cs.trace = SubSeq(StepOrder(circuit.params), 1,
                                         EntriesBeforeAbort(circuit))
                    /\ test_result \in {"none", "synthesis failed"}
                    /\ packed = <<>>
                    /\ pc = "done" => test_result = "synthesis failed"
                    /\ pc = "exited" => exit_status = "panicked"
        /\ syn.result = "AssignmentMissing" =>
              ValueAbsent(circuit) /\ syn_pc = "returned"

C13_Witness ==
    /\ prog = "test" /\ pc = "done"
    /\ test_result = "synthesis failed"
    /\ syn.result = "AssignmentMissing"
    /\ circuit.inputs # None
    /\ circuit.params.n_removes = 1
    /\ Len(Unwrap(circuit.inputs).to_remove) = 1
    /\ circuit.params.n_inserts = 2
    /\ Len(Unwrap(circuit.inputs).to_insert) = 1
    /\ Len(cs.trace) = 3 + 2 * (ELEMENT_SIZE + 1)

(***************************************************************************)
(* C14: key export is all-or-nothing.  A call of generate_keys that        *)
(* returns has created and written both key files; a call that fails has   *)
(* created no file at either destination.                                  *)
(***************************************************************************)
GenerateKeysFailed ==
    /\ GenerateKeysCalled
    /\ pc = "exited" /\ exit_status = "panicked"
    /\ Len(calls) = 1

C14_AllOrNothing ==
    /\ GenerateKeysReturned =>
          /\ fs_at_call[pk_filename] = NoFile /\ fs_at_call[vk_filename] = NoFile
          /\ fs[pk_filename] = PkJson(run) /\ fs[vk_filename] = VkJson(run)
    /\ GenerateKeysFailed =>
          \A p \in Paths : fs_at_call[p] = NoFile => fs[p] = NoFile

\* the verifying-key destination exists, the proving-key one does not: the
\* call fails after it has written the proving key
C14_Witness ==
    /\ GenerateKeysFailed
    /\ pk_filename # vk_filename
    /\ fs_at_call[pk_filename] = NoFile
    /\ fs_at_call[vk_filename] = OldFile
    /\ fs[pk_filename] = PkJson(run)
    /\ fs[vk_filename] = OldFile

====
